---- MODULE Spec2Model ----
(***************************************************************************)
(* Model of src/main.py: a telnet server (asyncio) that gives every        *)
(* connecting player an address of a network and a Host with an in-memory  *)
(* file store, driven by a line-oriented command loop.                     *)
(*                                                                         *)
(* asyncio runs all handlers on one thread: a handler runs without         *)
(* interruption from one `await` to the next.  Every action below is one   *)
(* such segment of TelnetServer.handle_client.                             *)
(***************************************************************************)
EXTENDS Integers, Sequences, FiniteSets, TLC

\* Number of connections the server accepts in a run.
MaxSessions == 3
\* Number of host addresses of the network handed to Net(network).
PoolSize == 2

\* ------------------------------------------------------------------------
\* Text.  A str / bytes value is a sequence of one-character strings.

WS == {" ", "\n", "\t", "\r"}

UpperCase == <<"A","B","C","D","E","F","G","H","I","J","K","L","M",
               "N","O","P","Q","R","S","T","U","V","W","X","Y","Z">>
LowerCase == <<"a","b","c","d","e","f","g","h","i","j","k","l","m",
               "n","o","p","q","r","s","t","u","v","w","x","y","z">>

\* str.lower() on one character, then on a string
LowerChar(ch) ==
  IF \E i \in 1..26 : UpperCase[i] = ch
  THEN LowerCase[CHOOSE i \in 1..26 : UpperCase[i] = ch]
  ELSE ch

Lower(s) == [i \in 1..Len(s) |-> LowerChar(s[i])]

RECURSIVE LStrip(_)
LStrip(s) == IF s # <<>> /\ Head(s) \in WS THEN LStrip(Tail(s)) ELSE s

RECURSIVE RStrip(_)
RStrip(s) ==
  IF s # <<>> /\ s[Len(s)] \in WS THEN RStrip(SubSeq(s, 1, Len(s) - 1)) ELSE s

\* str.strip()
Strip(s) == RStrip(LStrip(s))

\* str.startswith(prefix)
StartsWith(s, prefix) ==
  /\ Len(s) >= Len(prefix)
  /\ SubSeq(s, 1, Len(prefix)) = prefix

\* index of the first whitespace character of s, or Len(s) + 1
RECURSIVE WordEnd(_, _)
WordEnd(s, i) ==
  IF i > Len(s) \/ s[i] \in WS THEN i ELSE WordEnd(s, i + 1)

\* str.split(maxsplit=n) with the default separator: runs of whitespace
\* separate words, at most n splits, the remainder is the last element with
\* its leading whitespace removed.
RECURSIVE Split(_, _)
Split(s, maxsplit) ==
  LET t == LStrip(s)
      e == WordEnd(t, 1)
  IN  IF t = <<>> THEN <<>>
      ELSE IF maxsplit = 0 THEN <<t>>
      ELSE <<SubSeq(t, 1, e - 1)>> \o Split(SubSeq(t, e, Len(t)), maxsplit - 1)

\* ------------------------------------------------------------------------
\* Addresses.  An ipaddress.IPv4Address is its 32-bit integer; its str() is
\* the dotted quad, modelled as the sequence of its four octets.

\* ipaddress.ip_network(network).network_address for the network 10.0.0.0
NetworkAddress == 167772160

\* Net.network reduced to what the model uses of it: the number of host
\* addresses of the network given to Net(network)
VARIABLE network

\* self.network.hosts(): the addresses after the network address, in order
NetworkHosts == [i \in 1..network |-> NetworkAddress + i]

\* str(ip)
Str(ip) ==
  << (ip \div 16777216) % 256, (ip \div 65536) % 256, (ip \div 256) % 256, ip % 256 >>

\* ipaddress.IPv4Address(s)
IPv4Address(s) == ((s[1] * 256 + s[2]) * 256 + s[3]) * 256 + s[4]

\* Python's None, for a str-valued attribute and for an object reference
NoneStr == <<>>
NoneRef == 0

\* ------------------------------------------------------------------------
\* Host: the files dict is insertion ordered, a sequence of <<name, content>>

HasFile(files, filename) == \E i \in 1..Len(files) : files[i][1] = filename

\* self.files[filename] = content
DictSet(files, filename, content) ==
  IF HasFile(files, filename)
  THEN [i \in 1..Len(files) |->
          IF files[i][1] = filename THEN <<filename, content>> ELSE files[i]]
  ELSE Append(files, <<filename, content>>)

\* del self.files[filename]
DictDel(files, filename) ==
  SelectSeq(files, LAMBDA e : e[1] # filename)

\* Host.__init__
NewHost(ip) == [ip |-> ip, files |-> <<>>]

\* create_file that appends an entry whether or not the name exists
Host_create_file_Append(files, filename, content) ==
  [files |-> Append(files, <<filename, content>>),
   ret   |-> [kind |-> "created", filename |-> filename, content |-> content]]

\* Host.create_file: the new files and the text returned
Host_create_file(files, filename, content) ==
  [files |-> DictSet(files, filename, content),
   ret   |-> [kind |-> "created", filename |-> filename, content |-> content]]

\* delete_file that removes without looking (self.files.pop(filename, None))
\* and reports a deletion
Host_delete_file_Always(files, filename) ==
  [files |-> DictDel(files, filename),
   ret   |-> [kind |-> "deleted", filename |-> filename]]

\* Host.delete_file
Host_delete_file(files, filename) ==
  IF HasFile(files, filename)
  THEN [files |-> DictDel(files, filename),
        ret   |-> [kind |-> "deleted", filename |-> filename]]
  ELSE [files |-> files,
        ret   |-> [kind |-> "not_found", filename |-> filename]]

\* Host.list_files
Host_list_files(files) ==
  IF files = <<>>
  THEN [files |-> files, ret |-> [kind |-> "no_files"]]
  ELSE [files |-> files, ret |-> [kind |-> "listing", entries |-> files]]

\* ------------------------------------------------------------------------
\* Shell.execute_command on the files of the shell's host: the exception
\* raised ("None" if none), the new files and the text returned.

Kw_create == <<"c","r","e","a","t","e">>
Kw_delete == <<"d","e","l","e","t","e">>
Kw_list   == <<"l","i","s","t">>
Kw_exit   == <<"e","x","i","t">>
Kw_ps     == <<"p","s">>
Kw_help   == <<"h","e","l","p">>

Returned(r) == [exc |-> "None", files |-> r.files, ret |-> r.ret]
Raised(e, files) == [exc |-> e, files |-> files, ret |-> [kind |-> "none"]]

\* execute_command with `command == 'list'` in place of command.lower()
Shell_execute_command_CaseSensitive(files, command) ==
  IF StartsWith(command, Kw_create \o <<" ">>)
  THEN LET parts == Split(command, 2)
       IN  IF Len(parts) # 3
           THEN Raised("ValueError", files)
           ELSE Returned(Host_create_file(files, parts[2], parts[3]))
  ELSE IF StartsWith(command, Kw_delete \o <<" ">>)
  THEN LET parts == Split(command, 1)
       IN  IF Len(parts) # 2
           THEN Raised("ValueError", files)
           ELSE Returned(Host_delete_file(files, parts[2]))
  ELSE IF command = Kw_list
  THEN Returned(Host_list_files(files))
  ELSE [exc |-> "None", files |-> files, ret |-> [kind |-> "unknown"]]

Shell_execute_command(files, command) ==
  IF StartsWith(command, Kw_create \o <<" ">>)
  THEN LET parts == Split(command, 2)
       IN  IF Len(parts) # 3
           THEN Raised("ValueError", files)
           ELSE Returned(Host_create_file(files, parts[2], parts[3]))
  ELSE IF StartsWith(command, Kw_delete \o <<" ">>)
  THEN LET parts == Split(command, 1)
       IN  IF Len(parts) # 2
           THEN Raised("ValueError", files)
           ELSE Returned(Host_delete_file(files, parts[2]))
  ELSE IF Lower(command) = Kw_list
  THEN Returned(Host_list_files(files))
  ELSE [exc |-> "None", files |-> files, ret |-> [kind |-> "unknown"]]

\* ------------------------------------------------------------------------
\* State

VARIABLES
  players,    \* TelnetServer.players: player_id -> Player [player_id, ip, host]
  heap,       \* the Host objects ever constructed, by reference: [ip, files]
  hosts,      \* Net.hosts: str(ip) -> reference of a Host object
  used_ips,   \* Net.used_ips: set of IPv4Address
  pc,         \* per connection: the await its handler is at
  exc,        \* per connection: the exception that ended its handler
  player_id,  \* per connection: the handler's local player_id (0 before)
  outbuf      \* per connection: the text written and not yet drained

vars == <<network, players, heap, hosts, used_ips, pc, exc, player_id, outbuf>>

Conns == 1..MaxSessions

NoText == [kind |-> "none"]

\* ------------------------------------------------------------------------
\* Net

\* Net.get_unused_ip: the first address of the network not in used_ips is
\* added to used_ips and returned as str; None when there is none.
RECURSIVE ScanHosts(_, _)
ScanHosts(used, i) ==
  IF i > network THEN [ip |-> NoneStr, used_ips |-> used]
  ELSE IF NetworkHosts[i] \notin used
       THEN [ip |-> Str(NetworkHosts[i]), used_ips |-> used \cup {NetworkHosts[i]}]
       ELSE ScanHosts(used, i + 1)

\* get_unused_ip without `self.used_ips.add(ip)`
Net_get_unused_ip_NoAdd(used) == [ip |-> ScanHosts(used, 1).ip, used_ips |-> used]

\* get_unused_ip that falls back to the first address when all are used
Net_get_unused_ip_Wrap(used) ==
  IF ScanHosts(used, 1).ip = NoneStr
  THEN [ip |-> Str(NetworkHosts[1]), used_ips |-> used]
  ELSE ScanHosts(used, 1)

\* get_unused_ip that scans the network from its last address down
RECURSIVE ScanHostsDown(_, _)
ScanHostsDown(used, i) ==
  IF i < 1 THEN [ip |-> NoneStr, used_ips |-> used]
  ELSE IF NetworkHosts[i] \notin used
       THEN [ip |-> Str(NetworkHosts[i]), used_ips |-> used \cup {NetworkHosts[i]}]
       ELSE ScanHostsDown(used, i - 1)

Net_get_unused_ip_Last(used) == ScanHostsDown(used, network)

Net_get_unused_ip(used) == ScanHosts(used, 1)

\* the files of the Host created last at address ip, none if there was none
LastFilesAt(hp, ip) ==
  LET at == {k \in 1..Len(hp) : hp[k].ip = ip}
  IN  IF at = {} THEN <<>>
      ELSE hp[CHOOSE k \in at : \A j \in at : j <= k].files

\* create_host whose Host takes up the files of the Host that was at the
\* address before
Net_create_host_Stale(hp, hs, used) ==
  LET got == Net_get_unused_ip(used)
      ref == Len(hp) + 1
  IN  IF got.ip # NoneStr
      THEN [host |-> ref,
            heap |-> Append(hp, [NewHost(got.ip) EXCEPT
                                   !.files = LastFilesAt(hp, got.ip)]),
            hosts |-> [k \in DOMAIN hs \cup {got.ip} |->
                         IF k = got.ip THEN ref ELSE hs[k]],
            used_ips |-> got.used_ips]
      ELSE [host |-> NoneRef, heap |-> hp, hosts |-> hs, used_ips |-> got.used_ips]

\* Net.create_host: the reference of the new Host (None if no address) and
\* the new heap, hosts and used_ips.
Net_create_host(hp, hs, used) ==
  LET got == Net_get_unused_ip(used)
      ref == Len(hp) + 1
  IN  IF got.ip # NoneStr
      THEN [host |-> ref,
            heap |-> Append(hp, NewHost(got.ip)),
            hosts |-> [k \in DOMAIN hs \cup {got.ip} |->
                         IF k = got.ip THEN ref ELSE hs[k]],
            used_ips |-> got.used_ips]
      ELSE [host |-> NoneRef, heap |-> hp, hosts |-> hs, used_ips |-> got.used_ips]

\* ------------------------------------------------------------------------
\* Player

\* Player.__init__
NewPlayer(id) == [player_id |-> id, ip |-> NoneStr, host |-> NoneRef]

\* connect without `if self.ip is None`
Player_connect_NoGuard(player, hp, hs, used) ==
  LET made == Net_create_host(hp, hs, used)
  IN  [player |-> [player EXCEPT
                     !.host = made.host,
                     !.ip = IF made.host # NoneRef
                            THEN made.heap[made.host].ip ELSE NoneStr],
       heap |-> made.heap, hosts |-> made.hosts, used_ips |-> made.used_ips]

\* Player.connect
Player_connect(player, hp, hs, used) ==
  IF player.ip = NoneStr
  THEN LET made == Net_create_host(hp, hs, used)
       IN  [player |-> [player EXCEPT
                          !.host = made.host,
                          !.ip = IF made.host # NoneRef
                                 THEN made.heap[made.host].ip ELSE NoneStr],
            heap |-> made.heap, hosts |-> made.hosts, used_ips |-> made.used_ips]
  ELSE [player |-> player, heap |-> hp, hosts |-> hs, used_ips |-> used]

\* disconnect without `del net.hosts[self.ip]`
Player_disconnect_KeepHost(player, hs, used) ==
  IF player.host # NoneRef
  THEN [exc |-> "None", hosts |-> hs, used_ips |-> used \ {IPv4Address(player.ip)}]
  ELSE [exc |-> "None", hosts |-> hs, used_ips |-> used]

\* disconnect without `net.used_ips.remove(...)`
Player_disconnect_KeepIp(player, hs, used) ==
  IF player.host # NoneRef
  THEN [exc |-> "None",
        hosts |-> [k \in DOMAIN hs \ {player.ip} |-> hs[k]],
        used_ips |-> used]
  ELSE [exc |-> "None", hosts |-> hs, used_ips |-> used]

\* disconnect that, for a player without host, releases the lowest
\* allocated address
Player_disconnect_ReleaseAny(player, hs, used) ==
  IF player.host # NoneRef
  THEN IF IPv4Address(player.ip) \notin used
       THEN [exc |-> "KeyError", hosts |-> hs, used_ips |-> used]
       ELSE IF player.ip \notin DOMAIN hs
       THEN [exc |-> "KeyError", hosts |-> hs,
             used_ips |-> used \ {IPv4Address(player.ip)}]
       ELSE [exc |-> "None",
             hosts |-> [k \in DOMAIN hs \ {player.ip} |-> hs[k]],
             used_ips |-> used \ {IPv4Address(player.ip)}]
  ELSE IF used = {}
  THEN [exc |-> "None", hosts |-> hs, used_ips |-> used]
  ELSE LET low == CHOOSE ip \in used : \A other \in used : ip <= other
       IN  [exc |-> "None",
            hosts |-> [k \in DOMAIN hs \ {Str(low)} |-> hs[k]],
            used_ips |-> used \ {low}]

\* Player.disconnect: set.remove and del raise KeyError on a missing key;
\* the statements before the raising one have taken effect.
Player_disconnect(player, hs, used) ==
  IF player.host # NoneRef
  THEN IF IPv4Address(player.ip) \notin used
       THEN [exc |-> "KeyError", hosts |-> hs, used_ips |-> used]
       ELSE IF player.ip \notin DOMAIN hs
       THEN [exc |-> "KeyError", hosts |-> hs,
             used_ips |-> used \ {IPv4Address(player.ip)}]
       ELSE [exc |-> "None",
             hosts |-> [k \in DOMAIN hs \ {player.ip} |-> hs[k]],
             used_ips |-> used \ {IPv4Address(player.ip)}]
  ELSE [exc |-> "None", hosts |-> hs, used_ips |-> used]

\* ------------------------------------------------------------------------
\* What a client sends: the bytes reader.readline() returns.  The empty
\* bytes are what readline returns at end of input.

EOF == <<>>
NL == <<"\n">>

Lines == {
  EOF,
  NL,
  Kw_exit \o NL,
  <<"E","X","I","T">> \o NL,
  Kw_ps \o NL,
  Kw_help \o NL,
  Kw_list \o NL,
  <<"L","I","S","T">> \o NL,
  Kw_list \o <<" ","x">> \o NL,
  Kw_create \o <<" ","f"," ","a"," ","b">> \o NL,
  Kw_create \o <<" ","f">> \o NL,
  Kw_create \o NL,
  Kw_delete \o <<" ","f">> \o NL,
  Kw_delete \o <<" ","f"," ","g">> \o NL,
  Kw_delete \o NL,
  <<"b","o","g","u","s">> \o NL
}

\* ------------------------------------------------------------------------
\* TelnetServer.handle_client, one action per segment between two awaits

Init ==
  /\ network = PoolSize
  /\ players = <<>>
  /\ heap = <<>>
  /\ hosts = <<>>
  /\ used_ips = {}
  /\ pc = [c \in Conns |-> "idle"]
  /\ exc = [c \in Conns |-> "None"]
  /\ player_id = [c \in Conns |-> 0]
  /\ outbuf = [c \in Conns |-> NoText]

\* the handler of connection c runs (its exception, if any, has ended it)
Running(c) == pc[c] \notin {"idle", "done"} /\ exc[c] = "None"

\* Accept with the id taken from the number of handlers that still run, as
\* if a Player left self.players when its handler ended
Accept_CountRunning(c) ==
  /\ pc[c] = "idle"
  /\ \A d \in Conns : d < c => pc[d] # "idle"
  /\ LET id == Cardinality({d \in Conns : Running(d)}) + 1
     IN  /\ players' = [k \in DOMAIN players \cup {id} |->
                          IF k = id THEN NewPlayer(id) ELSE players[k]]
         /\ player_id' = [player_id EXCEPT ![c] = id]
         /\ outbuf' = [outbuf EXCEPT ![c] = [kind |-> "welcome", player_id |-> id]]
  /\ pc' = [pc EXCEPT ![c] = "welcome"]
  /\ UNCHANGED <<network, heap, hosts, used_ips, exc>>

\* lines 101-108: a connection is accepted (connections are numbered in the
\* order of acceptance), its Player is registered and the welcome is written
Accept(c) ==
  /\ pc[c] = "idle"
  /\ \A d \in Conns : d < c => pc[d] # "idle"
  /\ LET id == Cardinality(DOMAIN players) + 1
     IN  /\ players' = [k \in DOMAIN players \cup {id} |->
                          IF k = id THEN NewPlayer(id) ELSE players[k]]
         /\ player_id' = [player_id EXCEPT ![c] = id]
         /\ outbuf' = [outbuf EXCEPT ![c] = [kind |-> "welcome", player_id |-> id]]
  /\ pc' = [pc EXCEPT ![c] = "welcome"]
  /\ UNCHANGED <<network, heap, hosts, used_ips, exc>>

\* lines 108-113: the welcome is drained, player.connect(self.net), and the
\* loop awaits the first line
Connect(c) ==
  /\ pc[c] = "welcome" /\ exc[c] = "None"
  /\ LET r == Player_connect(players[player_id[c]], heap, hosts, used_ips)
     IN  /\ players' = [players EXCEPT ![player_id[c]] = r.player]
         /\ heap' = r.heap
         /\ hosts' = r.hosts
         /\ used_ips' = r.used_ips
  /\ pc' = [pc EXCEPT ![c] = "read"]
  /\ outbuf' = [outbuf EXCEPT ![c] = NoText]
  /\ UNCHANGED <<network, exc, player_id>>

\* the handler of c ends with exception e where it stands
Raise(c, e) ==
  /\ exc' = [exc EXCEPT ![c] = e]
  /\ UNCHANGED <<pc, player_id, outbuf>>

\* exit without player.disconnect(self.net)
DoExit_NoDisconnect(c) ==
  /\ outbuf' = [outbuf EXCEPT ![c] =
        [kind |-> "disconnected", player_id |-> player_id[c],
         ip |-> players[player_id[c]].ip]]
  /\ pc' = [pc EXCEPT ![c] = "exit_drain"]
  /\ UNCHANGED <<network, players, heap, hosts, used_ips, exc, player_id>>

\* lines 116-120: exit
DoExit(c) ==
  LET player == players[player_id[c]]
      r == Player_disconnect(player, hosts, used_ips)
  IN  /\ hosts' = r.hosts
      /\ used_ips' = r.used_ips
      /\ UNCHANGED <<network, players, heap>>
      /\ IF r.exc # "None"
         THEN Raise(c, r.exc)
         ELSE /\ outbuf' = [outbuf EXCEPT ![c] =
                   [kind |-> "disconnected", player_id |-> player_id[c], ip |-> player.ip]]
              /\ pc' = [pc EXCEPT ![c] = "exit_drain"]
              /\ UNCHANGED <<exc, player_id>>

\* lines 121-126: ps
DoPs(c) ==
  /\ outbuf' = [outbuf EXCEPT ![c] =
        [kind |-> "ps", ips |-> {Str(ip) : ip \in used_ips}]]
  /\ pc' = [pc EXCEPT ![c] = "drain"]
  /\ UNCHANGED <<network, players, heap, hosts, used_ips, exc, player_id>>

\* lines 127-136: help
DoHelp(c) ==
  /\ outbuf' = [outbuf EXCEPT ![c] = [kind |-> "help"]]
  /\ pc' = [pc EXCEPT ![c] = "drain"]
  /\ UNCHANGED <<network, players, heap, hosts, used_ips, exc, player_id>>

\* the shell command run on the Host created last instead of player.host
DoShell_Last(c, command) ==
  LET player == players[player_id[c]]
  IN  /\ UNCHANGED <<network, players, hosts, used_ips>>
      /\ IF player.host = NoneRef
         THEN /\ Raise(c, "AttributeError")
              /\ UNCHANGED heap
         ELSE LET r == Shell_execute_command(heap[Len(heap)].files, command)
              IN  /\ heap' = [heap EXCEPT ![Len(heap)].files = r.files]
                  /\ IF r.exc # "None"
                     THEN Raise(c, r.exc)
                     ELSE /\ outbuf' = [outbuf EXCEPT ![c] = r.ret]
                          /\ pc' = [pc EXCEPT ![c] = "drain"]
                          /\ UNCHANGED <<exc, player_id>>

\* lines 137-141: player.host.shell.execute_command(command); a player
\* without host has host None, which has no attribute shell
DoShell(c, command) ==
  LET player == players[player_id[c]]
  IN  /\ UNCHANGED <<network, players, hosts, used_ips>>
      /\ IF player.host = NoneRef
         THEN /\ Raise(c, "AttributeError")
              /\ UNCHANGED heap
         ELSE LET r == Shell_execute_command(heap[player.host].files, command)
              IN  /\ heap' = [heap EXCEPT ![player.host].files = r.files]
                  /\ IF r.exc # "None"
                     THEN Raise(c, r.exc)
                     ELSE /\ outbuf' = [outbuf EXCEPT ![c] = r.ret]
                          /\ pc' = [pc EXCEPT ![c] = "drain"]
                          /\ UNCHANGED <<exc, player_id>>

\* lines 113-141: readline returns data; the command is dispatched and its
\* response written
ReadLine(c, data) ==
  /\ pc[c] = "read" /\ exc[c] = "None"
  /\ LET command == Strip(data)
     IN  IF Lower(command) = Kw_exit THEN DoExit(c)
         ELSE IF Lower(command) = Kw_ps THEN DoPs(c)
         ELSE IF Lower(command) = Kw_help THEN DoHelp(c)
         ELSE DoShell(c, command)

\* lines 126, 136, 141: the response is drained, back to readline
Drained(c) ==
  /\ pc[c] = "drain" /\ exc[c] = "None"
  /\ pc' = [pc EXCEPT ![c] = "read"]
  /\ outbuf' = [outbuf EXCEPT ![c] = NoText]
  /\ UNCHANGED <<network, players, heap, hosts, used_ips, exc, player_id>>

\* lines 119-144: the disconnect message is drained, break, writer.close()
ExitDrained(c) ==
  /\ pc[c] = "exit_drain" /\ exc[c] = "None"
  /\ pc' = [pc EXCEPT ![c] = "wait_closed"]
  /\ outbuf' = [outbuf EXCEPT ![c] = NoText]
  /\ UNCHANGED <<network, players, heap, hosts, used_ips, exc, player_id>>

\* line 144: wait_closed returns and the handler with it
Closed(c) ==
  /\ pc[c] = "wait_closed" /\ exc[c] = "None"
  /\ pc' = [pc EXCEPT ![c] = "done"]
  /\ UNCHANGED <<network, players, heap, hosts, used_ips, exc, player_id, outbuf>>

\* lines 108, 113, 119, 126, 136, 141, 144: the awaited stream operation
\* raises (the connection was reset, which discards what was written);
\* nothing in handle_client catches it
TransportError(c) ==
  /\ Running(c)
  /\ exc' = [exc EXCEPT ![c] = "ConnectionResetError"]
  /\ outbuf' = [outbuf EXCEPT ![c] = NoText]
  /\ UNCHANGED <<network, players, heap, hosts, used_ips, pc, player_id>>

Next ==
  \E c \in Conns :
    \/ Accept(c)
    \/ Connect(c)
    \/ \E data \in Lines : ReadLine(c, data)
    \/ Drained(c)
    \/ ExitDrained(c)
    \/ Closed(c)
    \/ TransportError(c)

Spec == Init /\ [][Next]_vars

\* The server with clients that send only the lines that bear on the
\* allocation of addresses: exit, ps, and a line that ends the handler with
\* an exception.
PoolLines == {
  Kw_exit \o NL,
  Kw_ps \o NL,
  Kw_create \o <<" ","f">> \o NL
}

NextPool ==
  \E c \in Conns :
    \/ Accept(c)
    \/ Connect(c)
    \/ \E data \in PoolLines : ReadLine(c, data)
    \/ Drained(c)
    \/ ExitDrained(c)
    \/ Closed(c)
    \/ TransportError(c)

SpecPool == Init /\ [][NextPool]_vars

\* ------------------------------------------------------------------------
\* The Player and Net classes used directly, as a caller of their methods
\* may: Player(id) is constructed, connect(net) is called any number of
\* times, then disconnect(net) any number of times.  pc is the caller's
\* position for that player, exc the exception its last call raised.

\* Player(player_id)
ApiNew(c) ==
  /\ pc[c] = "idle"
  /\ \A d \in Conns : d < c => pc[d] # "idle"
  /\ players' = [k \in DOMAIN players \cup {c} |->
                   IF k = c THEN NewPlayer(c) ELSE players[k]]
  /\ player_id' = [player_id EXCEPT ![c] = c]
  /\ pc' = [pc EXCEPT ![c] = "new"]
  /\ UNCHANGED <<network, heap, hosts, used_ips, exc, outbuf>>

\* player.connect(net)
ApiConnect(c) ==
  /\ pc[c] \in {"new", "connected", "reconnected"}
  /\ LET r == Player_connect(players[player_id[c]], heap, hosts, used_ips)
     IN  /\ players' = [players EXCEPT ![player_id[c]] = r.player]
         /\ heap' = r.heap
         /\ hosts' = r.hosts
         /\ used_ips' = r.used_ips
  /\ pc' = [pc EXCEPT ![c] = IF pc[c] = "new" THEN "connected" ELSE "reconnected"]
  /\ exc' = [exc EXCEPT ![c] = "None"]
  /\ UNCHANGED <<network, player_id, outbuf>>

\* player.disconnect(net)
ApiDisconnect(c) ==
  /\ pc[c] \in {"connected", "reconnected", "disconnected"}
  /\ LET r == Player_disconnect(players[player_id[c]], hosts, used_ips)
     IN  /\ hosts' = r.hosts
         /\ used_ips' = r.used_ips
         /\ exc' = [exc EXCEPT ![c] = r.exc]
  /\ pc' = [pc EXCEPT ![c] = "disconnected"]
  /\ UNCHANGED <<network, players, heap, player_id, outbuf>>

NextApi ==
  \E c \in Conns :
    \/ ApiNew(c)
    \/ ApiConnect(c)
    \/ ApiDisconnect(c)

SpecApi == Init /\ [][NextApi]_vars

\* ------------------------------------------------------------------------
\* The server on a network with a single host address.

InitOne ==
  /\ network = 1
  /\ players = <<>>
  /\ heap = <<>>
  /\ hosts = <<>>
  /\ used_ips = {}
  /\ pc = [c \in Conns |-> "idle"]
  /\ exc = [c \in Conns |-> "None"]
  /\ player_id = [c \in Conns |-> 0]
  /\ outbuf = [c \in Conns |-> NoText]

SpecOne == InitOne /\ [][NextPool]_vars

\* ------------------------------------------------------------------------
\* One Host and its Shell used directly: net.create_host() has returned the
\* Host of reference 1 (the registry is not empty), and a caller invokes
\* its methods and its shell.
\* pc[1] is the method called last, outbuf[1] the text that call returned,
\* exc[1] the exception it raised.

FsNames == { <<"f">>, <<"g">> }
FsContents == { <<"h","i">>, <<"a"," ","b">>, <<"h","e","l","l","o">> }

\* the commands given to host.shell.execute_command (stripped lines)
FsCommands == {
  Kw_list,
  <<"L","I","S","T">>,
  <<"L","i","s","t">>,
  Kw_list \o <<" ","x">>,
  Kw_list \o <<" ","e","x","t","r","a"," ","t","o","k","e","n","s">>,
  Kw_create \o <<" ","f"," ","h","i">>,
  Kw_create \o <<" ","f"," ","a"," ","b">>,
  Kw_create \o <<" ","g"," ","h","i">>,
  Kw_create \o <<" ","f">>,
  Kw_create,
  Kw_delete \o <<" ","f">>,
  Kw_delete \o <<" ","g">>,
  Kw_delete \o <<" ","f"," ","g">>,
  Kw_delete,
  <<"b","o","g","u","s">>
}

InitFs ==
  /\ network = PoolSize
  /\ players = <<>>
  /\ LET made == Net_create_host(<<>>, <<>>, {})
     IN  /\ heap = made.heap
         /\ hosts = made.hosts
         /\ used_ips = made.used_ips
  /\ pc = [c \in Conns |-> "idle"]
  /\ exc = [c \in Conns |-> "None"]
  /\ player_id = [c \in Conns |-> 0]
  /\ outbuf = [c \in Conns |-> NoText]

\* the call of `method` on the Host of reference 1 has ended with result r
FsResult(method, r) ==
  /\ heap' = [heap EXCEPT ![1].files = r.files]
  /\ outbuf' = [outbuf EXCEPT ![1] = r.ret]
  /\ exc' = [exc EXCEPT ![1] = r.exc]
  /\ pc' = [pc EXCEPT ![1] = method]
  /\ UNCHANGED <<network, players, hosts, used_ips, player_id>>

\* host.create_file(filename, content)
FsCreate(filename, content) ==
  /\ hosts # <<>>
  /\ FsResult("create_file", Returned(Host_create_file(heap[1].files, filename, content)))

\* host.delete_file(filename)
FsDelete(filename) ==
  /\ hosts # <<>>
  /\ FsResult("delete_file", Returned(Host_delete_file(heap[1].files, filename)))

\* host.list_files()
FsList ==
  /\ hosts # <<>>
  /\ FsResult("list_files", Returned(Host_list_files(heap[1].files)))

\* host.shell.execute_command(command)
FsExec(command) ==
  /\ hosts # <<>>
  /\ FsResult("execute_command", Shell_execute_command(heap[1].files, command))

NextFs ==
  \/ \E filename \in FsNames, content \in FsContents : FsCreate(filename, content)
  \/ \E filename \in FsNames : FsDelete(filename)
  \/ FsList
  \/ \E command \in FsCommands : FsExec(command)

SpecFs == InitFs /\ [][NextFs]_vars

\* ------------------------------------------------------------------------
\* Vocabulary of the properties

\* the Player of connection c
PlayerOf(c) == players[player_id[c]]

Accepted(c) == pc[c] # "idle"

\* the session is in its command loop
Active(c) == pc[c] \in {"read", "drain"} /\ exc[c] = "None"

\* the session has left its command loop (or never reached it)
Disconnected(c) ==
  Accepted(c) /\ (pc[c] \in {"exit_drain", "wait_closed", "done"} \/ exc[c] # "None")

\* the handler of c has run player.disconnect for a player with a host
Released(c) ==
  /\ pc[c] \in {"exit_drain", "wait_closed", "done"}
  /\ PlayerOf(c).host # NoneRef

\* c was given a host and has not released it
Bound(c) == Accepted(c) /\ PlayerOf(c).host # NoneRef /\ ~Released(c)

\* the step is the connect of c (lines 108-113)
ConnectStep(c) == pc[c] = "welcome" /\ pc'[c] = "read"

\* the index of an address in the enumeration of the network
IsFirstFree(i, used) ==
  /\ NetworkHosts[i] \notin used
  /\ \A j \in 1..(i - 1) : NetworkHosts[j] \in used

\* data is forwarded to the shell (it is none of exit, ps, help)
ShellLine(data) == Lower(Strip(data)) \notin {Kw_exit, Kw_ps, Kw_help}

\* ------------------------------------------------------------------------
\* C1  Allocation uniqueness: no two sessions that hold a host at the same
\* time have the same address, whatever the interleaving of connects and
\* releases.
C1_AllocationUniqueness ==
  \A c, d \in Conns :
    (c # d /\ Bound(c) /\ Bound(d)) => PlayerOf(c).ip # PlayerOf(d).ip

\* two sessions hold hosts, one of them at an address that an earlier
\* session has released
C1_Witness ==
  \E c, d, e \in Conns :
    /\ c # d /\ Bound(c) /\ Bound(d)
    /\ Released(e) /\ PlayerOf(e).ip = PlayerOf(c).ip

\* C2  Registry consistency: in every state between two handler segments
\* (every state a session can observe, a `ps` among them) the addresses with
\* a Host entry are exactly the allocated addresses, and each entry is the
\* Host of that address.
C2_RegistryConsistency ==
  /\ DOMAIN hosts = {Str(ip) : ip \in used_ips}
  /\ \A k \in DOMAIN hosts :
       /\ IPv4Address(k) \in used_ips
       /\ hosts[k] \in 1..Len(heap)
       /\ heap[hosts[k]].ip = k

\* a `ps` is being answered after a release, with an address still allocated
C2_Witness ==
  \E c, d \in Conns :
    /\ pc[c] = "drain" /\ outbuf[c].kind = "ps" /\ outbuf[c].ips # {}
    /\ Released(d)
    /\ used_ips # {}

\* C6  Exhaustion: a connect made when all addresses of the network are allocated
\* yields no host and no address and changes neither used_ips nor hosts; and
\* no connect ever yields an address that was allocated before it.
C6_Exhaustion ==
  [][\A c \in Conns :
       ConnectStep(c) =>
         /\ Cardinality(used_ips) = network =>
              /\ players'[player_id[c]].host = NoneRef
              /\ players'[player_id[c]].ip = NoneStr
              /\ used_ips' = used_ips
              /\ hosts' = hosts
              /\ heap' = heap
         /\ players'[player_id[c]].ip # NoneStr =>
              IPv4Address(players'[player_id[c]].ip) \notin used_ips
    ]_vars

\* a session is in its loop without host while the pool is exhausted
C6_Witness ==
  \E c \in Conns :
    /\ Active(c) /\ PlayerOf(c).host = NoneRef /\ PlayerOf(c).ip = NoneStr
    /\ Cardinality(used_ips) = network
    /\ Cardinality(DOMAIN hosts) = network

\* C7  Pool conservation: the number of allocated addresses is the number
\* of hosts created minus the number of releases, every allocated address
\* is an address of the network, and a release removes the released address
\* and nothing else.
C7_PoolConservation ==
  /\ [](/\ Cardinality(used_ips)
            = Len(heap) - Cardinality({c \in Conns : Released(c)})
        /\ \A ip \in used_ips : \E i \in 1..network : NetworkHosts[i] = ip)
  /\ [][\A c \in Conns :
          (Bound(c) /\ Released(c)') =>
            /\ IPv4Address(PlayerOf(c).ip) \in used_ips
            /\ used_ips' = used_ips \ {IPv4Address(PlayerOf(c).ip)}
            /\ PlayerOf(c).ip \in DOMAIN hosts
            /\ DOMAIN hosts' = DOMAIN hosts \ {PlayerOf(c).ip}
       ]_vars

\* three hosts were created, one released, two addresses are allocated
C7_Witness ==
  /\ Len(heap) = 3
  /\ Cardinality({c \in Conns : Released(c)}) = 1
  /\ Cardinality(used_ips) = 2

\* C8  Lowest-first allocation: a connect that yields an address yields the
\* first address of the network, in its enumeration order, that was not
\* allocated; while nothing has been released, the n-th host created gets
\* the n-th address.
C8_LowestFirst ==
  [][\A c \in Conns :
       (ConnectStep(c) /\ players'[player_id[c]].ip # NoneStr) =>
         /\ \E i \in 1..network :
              /\ IsFirstFree(i, used_ips)
              /\ players'[player_id[c]].ip = Str(NetworkHosts[i])
              /\ used_ips' = used_ips \cup {NetworkHosts[i]}
         /\ (\A d \in Conns : ~Released(d)) =>
              players'[player_id[c]].ip = Str(NetworkHosts[Len(heap) + 1])
    ]_vars

\* the first address, released by an earlier session, is held again by a
\* later one while the second address is allocated
C8_Witness ==
  \E c, e \in Conns :
    /\ e < c /\ Released(e) /\ Bound(c)
    /\ PlayerOf(e).ip = Str(NetworkHosts[1])
    /\ PlayerOf(c).ip = Str(NetworkHosts[1])
    /\ NetworkHosts[2] \in used_ips

\* C3  Cleanup on every termination path: an address is allocated only
\* while a session in its command loop holds it.
C3_CleanupOnTermination ==
  \A ip \in used_ips :
    \E c \in Conns :
      Active(c) /\ PlayerOf(c).host # NoneRef /\ PlayerOf(c).ip = Str(ip)

\* C4  Host-less session: a line that a session without host forwards to
\* the command interpreter is answered with a "not connected" text, and the
\* session stays in its loop.
C4_HostlessSession ==
  [][\A c \in Conns : \A data \in Lines :
       (Accepted(c) /\ PlayerOf(c).host = NoneRef /\ ShellLine(data)
          /\ ReadLine(c, data)) =>
         /\ exc'[c] = "None"
         /\ pc'[c] = "drain"
         /\ outbuf'[c].kind = "not_connected"
    ]_vars

\* the malformed and the unknown commands among the lines
MalformedOrUnknown == {
  Kw_create \o <<" ","f">> \o NL,
  Kw_create \o NL,
  Kw_delete \o NL,
  <<"b","o","g","u","s">> \o NL
}

\* C5  Malformed or unknown input never terminates the session: a session
\* with a host answers such a line with one text, stays in its loop and keeps
\* its host and address.
C5_MalformedNeverTerminates ==
  [][\A c \in Conns : \A data \in MalformedOrUnknown :
       (Accepted(c) /\ PlayerOf(c).host # NoneRef /\ ReadLine(c, data)) =>
         /\ exc'[c] = "None"
         /\ pc'[c] = "drain"
         /\ outbuf'[c].kind # "none"
         /\ players' = players /\ hosts' = hosts /\ used_ips' = used_ips
    ]_vars

\* C9  Empty line or EOF is a disconnect trigger: a session that reads an
\* empty line or the end of input leaves its loop.
C9_EofDisconnects ==
  [][\A c \in Conns : \A data \in {EOF, NL} :
       ReadLine(c, data) => Disconnected(c)'
    ]_vars

\* C10  Idempotent cleanup: a second disconnect of the same player raises
\* nothing and leaves used_ips and hosts unchanged.
C10_IdempotentCleanup ==
  [][\A c \in Conns :
       (pc[c] = "disconnected" /\ ApiDisconnect(c)) =>
         /\ exc'[c] = "None"
         /\ used_ips' = used_ips
         /\ hosts' = hosts
    ]_vars

\* ------------------------------------------------------------------------
\* Properties of one Host and its Shell (SpecFs)

\* the files of the Host of reference 1
Files == heap[1].files

\* `create` with fewer than two arguments, `delete` with none or with two
ArityViolations == {
  Kw_create \o <<" ","f">>,
  Kw_create,
  Kw_delete,
  Kw_delete \o <<" ","f"," ","g">>
}

\* C11  Command arity: a `create` with fewer than two arguments and a
\* `delete` with a number of arguments other than one are answered as
\* malformed (by a text or by an exception of the interpreter), not as an
\* unknown command nor as the result of a delete, and leave the files
\* unchanged.
C11_CommandArity ==
  [][\A command \in ArityViolations :
       FsExec(command) =>
         /\ exc'[1] # "None" \/ outbuf'[1].kind = "malformed"
         /\ outbuf'[1].kind \notin {"unknown", "deleted", "not_found", "created"}
         /\ heap' = heap
    ]_vars

\* C12 as stated: `LIST`, `List` and `list` followed by more tokens all
\* return what `list` returns, none is an unknown command.
C12_ListDispatch ==
  [][\A command \in FsCommands :
       (StartsWith(Lower(command), Kw_list) /\ FsExec(command)) =>
         /\ exc'[1] = "None"
         /\ outbuf'[1] = Host_list_files(Files).ret
         /\ outbuf'[1].kind # "unknown"
    ]_vars

\* C12 as amended: the keyword `list` is matched case-insensitively (`LIST`
\* and `List` return what `list` returns and change no file); `list`
\* followed by more tokens is answered as an unknown command.
C12_ListDispatchExact ==
  [][\A command \in FsCommands :
       (StartsWith(Lower(command), Kw_list) /\ FsExec(command)) =>
         /\ exc'[1] = "None"
         /\ heap' = heap
         /\ Len(command) = Len(Kw_list) =>
              /\ outbuf'[1] = Host_list_files(Files).ret
              /\ outbuf'[1].kind \in {"listing", "no_files"}
         /\ Len(command) > Len(Kw_list) => outbuf'[1].kind = "unknown"
    ]_vars

\* the shell has answered a command with the listing of two files
C12_Witness ==
  /\ pc[1] = "execute_command"
  /\ outbuf[1].kind = "listing"
  /\ Len(outbuf[1].entries) = 2

\* C13  Filesystem round-trip: create_file leaves exactly one entry for
\* the name, holding the content given last (on an empty filesystem, the
\* listing is that one entry); list_files returns the entries, or the empty
\* indicator when there are none; delete_file of the only file leaves the
\* empty filesystem.
C13_FsRoundTrip ==
  [][/\ \A filename \in FsNames, content \in FsContents :
          /\ FsCreate(filename, content) =>
               /\ Cardinality({i \in 1..Len(Files') : Files'[i][1] = filename}) = 1
               /\ \E i \in 1..Len(Files') : Files'[i] = <<filename, content>>
               /\ HasFile(Files, filename) => Len(Files') = Len(Files)
               /\ Files = <<>> => Files' = << <<filename, content>> >>
          /\ (FsDelete(filename) /\ Files = << <<filename, content>> >>) =>
               Files' = <<>>
     /\ FsList =>
          /\ heap' = heap
          /\ Files = <<>> => outbuf'[1].kind = "no_files"
          /\ Files # <<>> =>
               outbuf'[1] = [kind |-> "listing", entries |-> Files]
    ]_vars

\* list_files has returned exactly one entry
C13_Witness ==
  /\ pc[1] = "list_files"
  /\ outbuf[1].kind = "listing"
  /\ Len(outbuf[1].entries) = 1
  /\ outbuf[1].entries = Files

\* C17  Delete of a missing file: delete_file of a name that is not in the
\* filesystem returns the not-found text, raises nothing and changes no
\* file.
C17_DeleteMissing ==
  [][\A filename \in FsNames :
       (FsDelete(filename) /\ ~HasFile(Files, filename)) =>
         /\ outbuf'[1] = [kind |-> "not_found", filename |-> filename]
         /\ exc'[1] = "None"
         /\ heap' = heap
    ]_vars

\* delete_file has answered not-found on a filesystem that holds a file
C17_Witness ==
  /\ pc[1] = "delete_file"
  /\ outbuf[1].kind = "not_found"
  /\ Files # <<>>
  /\ ~HasFile(Files, outbuf[1].filename)

\* ------------------------------------------------------------------------
\* Sessions (SpecPool, SpecOne)

\* the step is the `exit` of c (lines 116-119)
ExitStep(c) == pc[c] = "read" /\ pc'[c] = "exit_drain"

\* C14  Session ids: the ids of accepted connections are pairwise different
\* and increase with the order of acceptance, whether the earlier sessions
\* still run or not; each id names the Player registered under it.
C14_SessionIds ==
  /\ \A c, d \in Conns :
       (Accepted(c) /\ Accepted(d) /\ c < d) => player_id[c] < player_id[d]
  /\ DOMAIN players = {player_id[c] : c \in {d \in Conns : Accepted(d)}}
  /\ \A c \in Conns : Accepted(c) => PlayerOf(c).player_id = player_id[c]

\* the third connection was accepted after the first has ended and while
\* the second is in its loop
C14_Witness ==
  /\ pc[1] = "done"
  /\ Active(2)
  /\ Accepted(3) /\ player_id[3] = 3

\* the one address of a network of one
AddressA == NetworkHosts[1]

\* C15  Scenario on a pool of size 1: a connect made while nothing is
\* allocated is given address A; a connect made while A is allocated gives
\* no host and the session goes on to its loop; the exit of the session
\* that holds A leaves A unallocated and without host entry, so that a
\* connect made afterwards is given A.
C15_PoolOfOne ==
  [][\A c \in Conns :
       /\ (ConnectStep(c) /\ used_ips = {}) =>
            /\ PlayerOf(c)'.ip = Str(AddressA)
            /\ PlayerOf(c)'.host # NoneRef
            /\ used_ips' = {AddressA}
            /\ DOMAIN hosts' = {Str(AddressA)}
       /\ (ConnectStep(c) /\ used_ips # {}) =>
            /\ PlayerOf(c)'.host = NoneRef
            /\ Active(c)'
            /\ used_ips' = used_ips /\ hosts' = hosts
       /\ (ExitStep(c) /\ Bound(c)) =>
            /\ AddressA \notin used_ips'
            /\ Str(AddressA) \notin DOMAIN hosts'
    ]_vars

\* the first session has released A, the second was refused while the
\* first held A, the third holds A
C15_Witness ==
  /\ network = 1
  /\ Released(1) /\ PlayerOf(1).ip = Str(AddressA)
  /\ Accepted(2) /\ PlayerOf(2).host = NoneRef /\ Active(2)
  /\ Accepted(3) /\ Bound(3) /\ PlayerOf(3).ip = Str(AddressA)

\* ------------------------------------------------------------------------
\* Hosts and their files (Spec)

\* C16  Fresh filesystem per host: a connect that creates a host creates a
\* new Host object without files and enters it in the host map under its
\* address; the Host objects there were keep their files.  So a host at an
\* address that was released has none of the files of the former host.
C16_FreshFilesystem ==
  [][\A c \in Conns :
       (ConnectStep(c) /\ PlayerOf(c)'.host # NoneRef) =>
         LET h == PlayerOf(c)'.host
         IN  /\ h \notin 1..Len(heap)
             /\ h \in 1..Len(heap')
             /\ heap'[h].files = <<>>
             /\ heap'[h].ip = PlayerOf(c)'.ip
             /\ hosts'[PlayerOf(c)'.ip] = h
             /\ \A k \in 1..Len(heap) : heap'[k] = heap[k]
    ]_vars

\* a session holds, without files, the address that a former session
\* released with a file on its host
C16_Witness ==
  \E c, d \in Conns :
    /\ Released(c) /\ heap[PlayerOf(c).host].files # <<>>
    /\ Bound(d) /\ PlayerOf(d).ip = PlayerOf(c).ip
    /\ hosts[PlayerOf(d).ip] = PlayerOf(d).host
    /\ heap[PlayerOf(d).host].files = <<>>

\* the step is the processing of a line of c: a response is written, or the
\* handler ends with an exception
CommandStep(c) ==
  /\ pc[c] = "read" /\ exc[c] = "None"
  /\ pc'[c] = "drain" \/ exc'[c] # "None"

\* C18  Filesystem isolation: the files of a host change only in the
\* processing of a create or delete line of the session bound to that host;
\* the processing of a line of a session (file command, ps, help, unknown
\* command) leaves the files of all other hosts, the allocated set and the
\* host map unchanged.
C18_FsIsolation ==
  [][/\ \A h \in 1..Len(heap) :
          heap'[h].files # heap[h].files =>
            \E c \in Conns :
              /\ Bound(c) /\ PlayerOf(c).host = h
              /\ CommandStep(c)
              /\ pc'[c] = "drain" /\ outbuf'[c].kind \in {"created", "deleted"}
     /\ \A c \in Conns :
          CommandStep(c) =>
            /\ used_ips' = used_ips /\ hosts' = hosts
            /\ Len(heap') = Len(heap)
            /\ \A h \in 1..Len(heap) :
                 h # PlayerOf(c).host => heap'[h] = heap[h]
    ]_vars

\* a create is being answered to a session whose host is not the one
\* created last, and the host of another session has no file
C18_Witness ==
  \E c, d \in Conns :
    /\ Bound(c) /\ Bound(d) /\ PlayerOf(c).host < PlayerOf(d).host
    /\ pc[c] = "drain" /\ outbuf[c].kind = "created"
    /\ heap[PlayerOf(c).host].files # <<>>
    /\ heap[PlayerOf(d).host].files = <<>>

\* ------------------------------------------------------------------------
\* One host per player (SpecApi, SpecPool)

\* C19  One host per session: a player has a host exactly when it has an
\* address; once it has a host, neither its host nor its address changes;
\* a connect of a player that has an address creates no host and leaves the
\* allocated set, the host map and the player unchanged.
C19_OneHostPerSession ==
  [][\A c \in Conns :
       Accepted(c) =>
         /\ (PlayerOf(c).host = NoneRef) <=> (PlayerOf(c).ip = NoneStr)
         /\ PlayerOf(c).host # NoneRef =>
              /\ PlayerOf(c)'.host = PlayerOf(c).host
              /\ PlayerOf(c)'.ip = PlayerOf(c).ip
         /\ (ApiConnect(c) /\ PlayerOf(c).ip # NoneStr) =>
              /\ used_ips' = used_ips /\ hosts' = hosts
              /\ heap' = heap /\ players' = players
    ]_vars

\* connect was called again on a player that holds an address, while
\* another address is free
C19_Witness ==
  \E c \in Conns :
    /\ pc[c] = "reconnected"
    /\ PlayerOf(c).host # NoneRef
    /\ IPv4Address(PlayerOf(c).ip) \in used_ips
    /\ Cardinality(used_ips) < network

\* C20  Exit of a host-less session: the `exit` of a session that was given
\* no host ends its loop without exception and leaves the allocated set and
\* the host map unchanged.
C20_HostlessExit ==
  [][\A c \in Conns :
       (/\ Accepted(c)
        /\ PlayerOf(c).host = NoneRef
        /\ ReadLine(c, Kw_exit \o NL)) =>
         /\ pc'[c] = "exit_drain" /\ exc'[c] = "None"
         /\ used_ips' = used_ips /\ hosts' = hosts
    ]_vars

\* a session without host has left on exit while every address of the
\* network is allocated to another session
C20_Witness ==
  \E c \in Conns :
    /\ pc[c] \in {"exit_drain", "wait_closed", "done"} /\ exc[c] = "None"
    /\ PlayerOf(c).host = NoneRef
    /\ Cardinality(used_ips) = network
    /\ Cardinality(DOMAIN hosts) = network

====
